---- MODULE Spec2Model ----
(***************************************************************************)
(* Model of src/main.py: the five student handlers (list, get, create,     *)
(* update, delete), the 'students' table behind them and the statements    *)
(* the handlers send to the store.                                         *)
(*                                                                         *)
(* Text is a sequence of one-character strings.  The statements that the   *)
(* handlers build with f-strings are sequences of symbols: the fixed       *)
(* pieces of the template are one symbol each, an interpolated integer is  *)
(* its decimal rendering, interpolated text is copied character by         *)
(* character.  The store reads such a statement back with MySQL's rules    *)
(* for string literals ('' inside a literal is one quote, a quote ends the *)
(* literal, # outside a literal starts a comment).                         *)
(*                                                                         *)
(* Spec  : requests run one after another, each handler is one action.     *)
(* SpecC : requests interleave at their awaits (one action per store       *)
(*         call), each request in its own session and transaction.         *)
(***************************************************************************)
EXTENDS Integers, Sequences, FiniteSets, TLC

VARIABLES table, nextId, last, gone, req, ended

vars == <<table, nextId, last, gone, req, ended>>

(***************************************************************************)
(* Bounds of the model.                                                    *)
(***************************************************************************)
\* number of rows the store is asked to insert before create is cut off
MaxId == 2
\* number of requests that can be in flight at once under SpecC
NumReq == 2

StudentIds == 1 .. MaxId
Clients == 1 .. NumReq

(***************************************************************************)
(* Text and the characters that matter to the statement reader.            *)
(***************************************************************************)
QUOTE == "'"
HASH == "#"

Fields == {"name", "age", "address", "email"}

\* Request bodies the clients send.  A JSON object is a function from the
\* keys it holds: a body without "name" is a record without that field.
Plain == [name |-> <<"a">>, age |-> 20, address |-> <<"r">>, email |-> <<"e">>]
SameEmail == [name |-> <<"b">>, age |-> 21, address |-> <<"s">>, email |-> <<"e">>]
Quoted == [name |-> <<"a", QUOTE, QUOTE, "b">>, age |-> 20, address |-> <<"r">>, email |-> <<"f">>]
Comment == [name |-> <<"c", QUOTE, HASH>>, age |-> 21, address |-> <<"s">>, email |-> <<"g">>]
Empty == [name |-> <<>>, age |-> 20, address |-> <<>>, email |-> <<>>]
NoName == [age |-> 20, address |-> <<"r">>, email |-> <<"e">>]

Bodies == {Plain, SameEmail, Quoted, Comment, Empty, NoName}

\* The bodies sent when requests interleave.
Racing == {Plain, SameEmail, Comment, NoName}

(***************************************************************************)
(* Pydantic schemas.                                                       *)
(***************************************************************************)
\* StudentCreate: the four fields are required; nothing is said of length.
StudentCreate(body) == Fields \subseteq DOMAIN body

\* StudentOut: the row as the response shows it.
StudentOut(row) ==
    [id |-> row.id, name |-> row.name, age |-> row.age,
     address |-> row.address, email |-> row.email]

(***************************************************************************)
(* The students table (class Student) and its constraints.                 *)
(***************************************************************************)
Ids(t) == {r.id : r \in t}
Emails(t) == {r.email : r \in t}

\* Student built with name and address taken from each other's field.
StudentSwapped(id, s) ==
    [id |-> id, name |-> s.address, age |-> s.age, address |-> s.name,
     email |-> s.email]

\* Student(**student.dict()) with the id the store assigns on INSERT.
Student(id, s) ==
    [id |-> id, name |-> s.name, age |-> s.age, address |-> s.address,
     email |-> s.email]

\* id = Column(Integer, primary_key=True): no two rows share an id.
PrimaryKeyOK(t) == \A r1, r2 \in t : r1.id = r2.id => r1 = r2

\* The email column declared without unique=True.
UniqueEmailDropped(t) == TRUE

\* email = Column(String(100), unique=True): no two rows share an email.
UniqueEmailOK(t) == \A r1, r2 \in t : r1.email = r2.email => r1 = r2

\* What the store accepts as the table after a statement.
ConstraintsOK(t) == PrimaryKeyOK(t) /\ UniqueEmailOK(t)

(***************************************************************************)
(* Integers in statement text: str(int) and the store's reading of it.     *)
(***************************************************************************)
Digit == <<"0", "1", "2", "3", "4", "5", "6", "7", "8", "9">>

RECURSIVE ToStr(_)
ToStr(n) == IF n < 10 THEN Digit[n + 1] ELSE ToStr(n \div 10) \o Digit[(n % 10) + 1]

\* The numerals the store is handed in this model, and the integer each reads as.
Numbers == 0 .. 30
Numeral == [n \in Numbers |-> ToStr(n)]
IsNumber(sym) == \E n \in Numbers : Numeral[n] = sym
ToInt(sym) == CHOOSE n \in Numbers : Numeral[n] = sym

(***************************************************************************)
(* The UPDATE statement of update_student, as text.                        *)
(***************************************************************************)
KwName == "UPDATE students SET name="
KwAge == ", age="
KwAddress == ", address="
KwEmail == ", email="
KwWhere == " WHERE id="

UpdateStatement(id, s) ==
    <<KwName, QUOTE>> \o s.name \o <<QUOTE, KwAge, ToStr(s.age), KwAddress, QUOTE>>
        \o s.address \o <<QUOTE, KwEmail, QUOTE>> \o s.email
        \o <<QUOTE, KwWhere, ToStr(id)>>

(***************************************************************************)
(* The store's reading of a statement: tokens, then the SET list.          *)
(***************************************************************************)
\* Tokens of stmt from position i on.  open: inside a string literal whose
\* content so far is cur.
RECURSIVE Lex(_, _, _, _)
Lex(stmt, i, open, cur) ==
    IF open
    THEN IF i > Len(stmt) THEN [ok |-> FALSE, toks |-> <<>>]
         ELSE IF stmt[i] = QUOTE /\ i + 1 <= Len(stmt) /\ stmt[i + 1] = QUOTE
              THEN Lex(stmt, i + 2, TRUE, Append(cur, QUOTE))
         ELSE IF stmt[i] = QUOTE
              THEN LET rest == Lex(stmt, i + 1, FALSE, <<>>)
                   IN  [ok |-> rest.ok,
                        toks |-> <<[lit |-> TRUE, v |-> cur]>> \o rest.toks]
         ELSE Lex(stmt, i + 1, TRUE, Append(cur, stmt[i]))
    ELSE IF i > Len(stmt) THEN [ok |-> TRUE, toks |-> <<>>]
         ELSE IF stmt[i] = HASH THEN [ok |-> TRUE, toks |-> <<>>]
         ELSE IF stmt[i] = QUOTE THEN Lex(stmt, i + 1, TRUE, <<>>)
         ELSE LET rest == Lex(stmt, i + 1, FALSE, <<>>)
              IN  [ok |-> rest.ok,
                   toks |-> <<[lit |-> FALSE, v |-> <<stmt[i]>>]>> \o rest.toks]

IsSym(tok, sym) == ~tok.lit /\ tok.v = <<sym>>
IsNum(tok) == ~tok.lit /\ IsNumber(tok.v[1])

\* The column a piece of the SET list assigns, "none" for any other token.
SetColumn(tok) ==
    IF IsSym(tok, KwName) THEN "name"
    ELSE IF IsSym(tok, KwAge) THEN "age"
    ELSE IF IsSym(tok, KwAddress) THEN "address"
    ELSE IF IsSym(tok, KwEmail) THEN "email"
    ELSE "none"

\* UPDATE students SET col=value {, col=value} [WHERE id=number], from
\* token i on; sets is the list of <<column, value>> read so far.  where = 0
\* stands for a statement without a WHERE clause.
RECURSIVE ParseSet(_, _, _)
ParseSet(toks, i, sets) ==
    IF i > Len(toks) THEN [ok |-> sets # <<>>, sets |-> sets, where |-> 0]
    ELSE IF IsSym(toks[i], KwWhere)
    THEN IF sets # <<>> /\ i + 1 = Len(toks) /\ IsNum(toks[i + 1])
         THEN [ok |-> TRUE, sets |-> sets, where |-> ToInt(toks[i + 1].v[1])]
         ELSE [ok |-> FALSE, sets |-> <<>>, where |-> 0]
    ELSE IF SetColumn(toks[i]) = "none" \/ i + 1 > Len(toks)
            \/ (i = 1) # IsSym(toks[i], KwName)
    THEN [ok |-> FALSE, sets |-> <<>>, where |-> 0]
    ELSE IF SetColumn(toks[i]) = "age"
    THEN IF IsNum(toks[i + 1])
         THEN ParseSet(toks, i + 2, Append(sets, <<"age", ToInt(toks[i + 1].v[1])>>))
         ELSE [ok |-> FALSE, sets |-> <<>>, where |-> 0]
    ELSE IF toks[i + 1].lit
         THEN ParseSet(toks, i + 2, Append(sets, <<SetColumn(toks[i]), toks[i + 1].v>>))
         ELSE [ok |-> FALSE, sets |-> <<>>, where |-> 0]

\* The statement as the store understands it, or ok = FALSE: a syntax error.
ParseUpdate(stmt) ==
    LET lx == Lex(stmt, 1, FALSE, <<>>)
    IN  IF lx.ok THEN ParseSet(lx.toks, 1, <<>>)
        ELSE [ok |-> FALSE, sets |-> <<>>, where |-> 0]

\* The row after the assignments of a SET list, left to right.
RECURSIVE Assign(_, _, _)
Assign(row, sets, i) ==
    IF i > Len(sets) THEN row
    ELSE Assign([row EXCEPT ![sets[i][1]] = sets[i][2]], sets, i + 1)

(***************************************************************************)
(* Statements against the table.  Each answers [err, hit, put]: err is the *)
(* store raising (syntax or integrity error); hit are the ids of the rows  *)
(* the statement matches and locks, put the rows it writes.  Nothing is in *)
(* the table before the transaction commits.                               *)
(***************************************************************************)
\* The table once the writes w are committed.
Commit(t, w) == {r \in t : r.id \notin w.hit} \cup w.put

\* SELECT * FROM students WHERE id = {id}; fetchone(): no row or the row.
SelectById(t, id) == {r \in t : r.id = ToInt(ToStr(id))}

\* The handlers without their existence check.
NotFoundSkipped(t, id) == FALSE

\* if not student: raise HTTPException(status_code=404)
NotFound(t, id) == SelectById(t, id) = {}

\* INSERT of Student(**student.dict()), values bound as parameters.
ExecInsert(t, id, s) ==
    LET w == [hit |-> {}, put |-> {Student(id, s)}]
    IN  [err |-> id \in Ids(t) \/ ~ConstraintsOK(Commit(t, w)),
         hit |-> w.hit, put |-> w.put]

\* The rows a parsed UPDATE matches.
Matched(t, cmd) == IF cmd.where = 0 THEN t ELSE {r \in t : r.id = cmd.where}

\* The UPDATE statement, read from its text.
ExecUpdate(t, stmt) ==
    LET cmd == ParseUpdate(stmt)
        w == [hit |-> Ids(Matched(t, cmd)),
              put |-> {Assign(r, cmd.sets, 1) : r \in Matched(t, cmd)}]
    IN  IF cmd.ok
        THEN [err |-> ~ConstraintsOK(Commit(t, w)), hit |-> w.hit, put |-> w.put]
        ELSE [err |-> TRUE, hit |-> {}, put |-> {}]

\* DELETE FROM students, the WHERE clause left out.
ExecDeleteAll(t, id) == [err |-> FALSE, hit |-> Ids(t), put |-> {}]

\* DELETE FROM students WHERE id = {id}
ExecDelete(t, id) ==
    [err |-> FALSE, hit |-> Ids({r \in t : r.id = ToInt(ToStr(id))}), put |-> {}]

\* SELECT * FROM students; fetchall(): every row, in primary-key order.
RECURSIVE FetchAll(_)
FetchAll(t) ==
    IF t = {} THEN <<>>
    ELSE LET r == CHOOSE r \in t : \A q \in t : r.id <= q.id
         IN  <<StudentOut(r)>> \o FetchAll(t \ {r})

(***************************************************************************)
(* The handlers, one request at a time.  last is the request that ended    *)
(* last: what it was, what it answered and the table it started from.      *)
(* gone is the set of ids deleted since the last create request.           *)
(***************************************************************************)
NoBody == [none |-> TRUE]

Answer(op, id, body, status, rows) ==
    [op |-> op, id |-> id, body |-> body, status |-> status, rows |-> rows,
     before |-> table, goneBefore |-> gone]

\* GET /students
get_students ==
    /\ last' = Answer("list", 0, NoBody, 200, FetchAll(table))
    /\ UNCHANGED <<table, nextId, gone, req, ended>>

\* The answer of GET /students/{id} on table t: 404, or the row fetched.
GetStudent(t, id) ==
    IF NotFound(t, id) THEN [status |-> 404, rows |-> <<>>]
    ELSE [status |-> 200, rows |-> FetchAll(SelectById(t, id))]

\* GET /students/{student_id}
get_student(id) ==
    /\ last' = Answer("get", id, NoBody, GetStudent(table, id).status,
                      GetStudent(table, id).rows)
    /\ UNCHANGED <<table, nextId, gone, req, ended>>

\* POST /students.  A body the schema rejects never reaches the handler
\* (422).  The INSERT runs inside commit(); when the store raises, nothing
\* catches it (500) and the session ends without a commit, the id the store
\* had allocated is not handed out again.  refresh() reads the row back by
\* its primary key.
create_student(body) ==
    /\ nextId <= MaxId
    /\ gone' = {}
    /\ IF ~StudentCreate(body)
       THEN /\ last' = Answer("create", 0, body, 422, <<>>)
            /\ UNCHANGED <<table, nextId>>
       ELSE LET ins == ExecInsert(table, nextId, body)
                t2 == IF ins.err THEN table ELSE Commit(table, ins)
            IN  /\ nextId' = nextId + 1
                /\ table' = t2
                /\ last' = IF ins.err
                           THEN Answer("create", 0, body, 500, <<>>)
                           ELSE Answer("create", 0, body, GetStudent(t2, nextId).status,
                                       GetStudent(t2, nextId).rows)
    /\ UNCHANGED <<req, ended>>

\* PUT /students/{student_id}.  The answer repeats the request body.
update_student(id, body) ==
    /\ IF ~StudentCreate(body)
       THEN /\ last' = Answer("update", id, body, 422, <<>>)
            /\ UNCHANGED table
       ELSE IF NotFound(table, id)
       THEN /\ last' = Answer("update", id, body, 404, <<>>)
            /\ UNCHANGED table
       ELSE LET upd == ExecUpdate(table, UpdateStatement(id, body))
            IN  /\ table' = IF upd.err THEN table ELSE Commit(table, upd)
                /\ last' = IF upd.err
                           THEN Answer("update", id, body, 500, <<>>)
                           ELSE Answer("update", id, body, 200,
                                       <<StudentOut(Student(id, body))>>)
    /\ UNCHANGED <<nextId, gone, req, ended>>

\* DELETE /students/{student_id}
delete_student(id) ==
    /\ IF NotFound(table, id)
       THEN /\ last' = Answer("delete", id, NoBody, 404, <<>>)
            /\ UNCHANGED <<table, gone>>
       ELSE /\ table' = Commit(table, ExecDelete(table, id))
            /\ gone' = gone \cup {id}
            /\ last' = Answer("delete", id, NoBody, 200, <<>>)
    /\ UNCHANGED <<nextId, req, ended>>

(***************************************************************************)
(* The handlers when requests interleave.  Every await of a handler is one *)
(* action; the request's arrival and validation go with its first store    *)
(* call.  req[c] is the request client c has in flight: where it stands    *)
(* (pc), the writes its transaction holds uncommitted (hit, put), and, for *)
(* the claims, whether it has committed and whether the row it names was   *)
(* in the table when it did (present).  ended is the request that was      *)
(* answered last.  The two GET handlers make one store call and write      *)
(* nothing; they are left to Spec.                                         *)
(***************************************************************************)
NoWrites == [hit |-> {}, put |-> {}]

Idle ==
    [pc |-> "idle", op |-> "none", id |-> 0, body |-> NoBody,
     committed |-> FALSE, present |-> FALSE, hit |-> {}, put |-> {}]

Arrived(op, id, body) == [Idle EXCEPT !.op = op, !.id = id, !.body = body]

\* Request r at its next await, holding the uncommitted writes w.
Txn(r, pc, w) == [r EXCEPT !.pc = pc, !.hit = w.hit, !.put = w.put]

\* The answer to request r, as the client sees it.
Ended(r, status) ==
    [op |-> r.op, status |-> status, committed |-> r.committed,
     present |-> r.present]

\* get_db: client c's request r goes on to its next await, or it ends with
\* status (0: not yet) and its session closes: what the transaction had not
\* committed is dropped with it.
Proceed(c, r, status) ==
    IF status = 0
    THEN /\ req' = [req EXCEPT ![c] = r]
         /\ UNCHANGED ended
    ELSE /\ req' = [req EXCEPT ![c] = Idle]
         /\ ended' = Ended(r, status)

\* The emails whose index entries the writes w touch in table t.
LockedEmails(t, w) == Emails({r \in t : r.id \in w.hit}) \cup Emails(w.put)

\* A statement waits while another transaction holds a row or an email
\* it needs.
Blocked(c, w) ==
    \E d \in Clients \ {c} :
        /\ req[d].pc = "commit"
        /\ \/ w.hit \cap req[d].hit # {}
           \/ LockedEmails(table, w) \cap LockedEmails(table, req[d]) # {}

\* create_student up to the INSERT that commit() flushes.
create_flush(c, body) ==
    /\ req[c].pc = "idle"
    /\ nextId <= MaxId
    /\ LET r == Arrived("create", nextId, body)
           ins == ExecInsert(table, nextId, body)
       IN  IF ~StudentCreate(body)
           THEN /\ Proceed(c, r, 422)
                /\ UNCHANGED nextId
           ELSE /\ ~Blocked(c, ins)
                /\ nextId' = nextId + 1
                /\ IF ins.err THEN Proceed(c, r, 500)
                   ELSE Proceed(c, Txn(r, "commit", ins), 0)
    /\ UNCHANGED <<table, last, gone>>

\* await db.commit(): the transaction's writes reach the table.  Only
\* create_student has an await after it.
commit(c) ==
    /\ req[c].pc = "commit"
    /\ table' = Commit(table, req[c])
    /\ LET r == [req[c] EXCEPT !.committed = TRUE,
                               !.present = ~NotFound(table, req[c].id)]
       IN  IF r.op = "create" THEN Proceed(c, Txn(r, "refresh", NoWrites), 0)
           ELSE Proceed(c, r, 200)
    /\ UNCHANGED <<nextId, last, gone>>

\* await db.refresh(new_student): raises when the row is no longer there.
create_refresh(c) ==
    /\ req[c].pc = "refresh"
    /\ Proceed(c, req[c], IF NotFound(table, req[c].id) THEN 500 ELSE 200)
    /\ UNCHANGED <<table, nextId, last, gone>>

\* update_student up to its existence check.
update_select(c, id, body) ==
    /\ req[c].pc = "idle"
    /\ LET r == Arrived("update", id, body)
       IN  IF ~StudentCreate(body) THEN Proceed(c, r, 422)
           ELSE IF NotFound(table, id) THEN Proceed(c, r, 404)
           ELSE Proceed(c, Txn(r, "write", NoWrites), 0)
    /\ UNCHANGED <<table, nextId, last, gone>>

\* await db.execute(UPDATE ...)
update_write(c) ==
    /\ req[c].pc = "write"
    /\ req[c].op = "update"
    /\ LET upd == ExecUpdate(table, UpdateStatement(req[c].id, req[c].body))
       IN  /\ ~Blocked(c, upd)
           /\ IF upd.err THEN Proceed(c, req[c], 500)
              ELSE Proceed(c, Txn(req[c], "commit", upd), 0)
    /\ UNCHANGED <<table, nextId, last, gone>>

\* delete_student up to its existence check.
delete_select(c, id) ==
    /\ req[c].pc = "idle"
    /\ LET r == Arrived("delete", id, NoBody)
       IN  IF NotFound(table, id) THEN Proceed(c, r, 404)
           ELSE Proceed(c, Txn(r, "write", NoWrites), 0)
    /\ UNCHANGED <<table, nextId, last, gone>>

\* await db.execute(DELETE ...)
delete_write(c) ==
    /\ req[c].pc = "write"
    /\ req[c].op = "delete"
    /\ LET del == ExecDelete(table, req[c].id)
       IN  /\ ~Blocked(c, del)
           /\ Proceed(c, Txn(req[c], "commit", del), 0)
    /\ UNCHANGED <<table, nextId, last, gone>>

(***************************************************************************)
(* The two specifications.                                                 *)
(***************************************************************************)
\* startup(): create_all on a fresh database leaves an empty table.
Init ==
    /\ table = {}
    /\ nextId = 1
    /\ last = [op |-> "none", id |-> 0, body |-> NoBody, status |-> 0,
               rows |-> <<>>, before |-> {}, goneBefore |-> {}]
    /\ gone = {}
    /\ req = [c \in Clients |-> Idle]
    /\ ended = Ended(Idle, 0)

Next ==
    \/ get_students
    \/ \E id \in StudentIds : get_student(id)
    \/ \E body \in Bodies : create_student(body)
    \/ \E id \in StudentIds, body \in Bodies : update_student(id, body)
    \/ \E id \in StudentIds : delete_student(id)

Spec == Init /\ [][Next]_vars

NextC ==
    \E c \in Clients :
        \/ \E body \in Racing : create_flush(c, body)
        \/ commit(c)
        \/ create_refresh(c)
        \/ \E id \in StudentIds, body \in Racing : update_select(c, id, body)
        \/ update_write(c)
        \/ \E id \in StudentIds : delete_select(c, id)
        \/ delete_write(c)

SpecC == Init /\ [][NextC]_vars

(***************************************************************************)
(* The claims.  Under Spec they read last, the request that ended last,    *)
(* against table, the table it left; under SpecC they read ended.          *)
(***************************************************************************)
RowOf(t, id) == CHOOSE r \in t : r.id = id
Others(t, id) == {r \in t : r.id # id}
Writes == {"create", "update", "delete"}

\* C1: a create whose email is already in the table is answered 409
\* (ConflictError), and the table still holds exactly one row with that
\* email.
C1_DuplicateEmailIsConflict ==
    (last.op = "create" /\ StudentCreate(last.body)
        /\ last.body.email \in Emails(last.before))
    => /\ last.status = 409
       /\ Cardinality({r \in table : r.email = last.body.email}) = 1

\* C2: an update on an existing id whose new email belongs to another row
\* is answered 409 and leaves the table unchanged; an update that keeps
\* the row's own email succeeds.
C2_UpdateChecksOtherRows ==
    (last.op = "update" /\ StudentCreate(last.body)
        /\ last.id \in Ids(last.before))
    => /\ last.body.email \in Emails(Others(last.before, last.id))
            => (last.status = 409 /\ table = last.before)
       /\ last.body.email = RowOf(last.before, last.id).email
            => last.status = 200

\* C3: whatever the interleaving of create, update and delete requests, no
\* two distinct rows of the table have the same email or the same id.
C3_EmailAndIdUnique ==
    \A r1, r2 \in table : r1 # r2 => (r1.email # r2.email /\ r1.id # r2.id)

\* C3 witness: two rows are in the table while a transaction holds an
\* uncommitted write and the store has just refused an update.
C3_Witness ==
    /\ Cardinality(table) = 2
    /\ \E c \in Clients : req[c].pc = "commit"
    /\ ended.op = "update" /\ ended.status = 500

\* C4: a successful create answers a record whose id no row had before,
\* whose four fields are the request's, and which a get of that id issued
\* next returns unchanged.
C4_CreateRoundTrip ==
    (last.op = "create" /\ last.status = 200)
    => /\ Len(last.rows) = 1
       /\ last.rows[1].id \notin Ids(last.before)
       /\ last.rows[1].name = last.body.name
       /\ last.rows[1].age = last.body.age
       /\ last.rows[1].address = last.body.address
       /\ last.rows[1].email = last.body.email
       /\ GetStudent(table, last.rows[1].id) = [status |-> 200, rows |-> last.rows]

\* C4 witness: a create of a name holding quotes succeeded on a table that
\* already had a row.
C4_Witness ==
    /\ last.op = "create" /\ last.status = 200
    /\ last.body = Quoted
    /\ last.before # {}

\* C5: a successful update leaves the row with the request's four fields
\* under the same id, leaves every other row as it was, and a get of that
\* id issued next returns the new values.
C5_UpdateReplacesFields ==
    (last.op = "update" /\ last.status = 200)
    => /\ Student(last.id, last.body) \in table
       /\ Others(table, last.id) = Others(last.before, last.id)
       /\ GetStudent(table, last.id)
            = [status |-> 200, rows |-> <<StudentOut(Student(last.id, last.body))>>]

\* C6: a delete of an existing id succeeds and removes that row and no
\* other, the list read afterwards does not hold the id, and a delete of
\* an id already deleted, with no create request since, is answered 404.
C6_DeleteRemovesExactlyOne ==
    last.op = "delete"
    => /\ last.id \in Ids(last.before)
            => /\ last.status = 200
               /\ table = Others(last.before, last.id)
               /\ \A i \in 1 .. Len(FetchAll(table)) : FetchAll(table)[i].id # last.id
       /\ last.id \in last.goneBefore => last.status = 404

\* C6 witness: an id is deleted a second time while another row is still
\* in the table.
C6_Witness ==
    /\ last.op = "delete"
    /\ last.id \in last.goneBefore
    /\ last.before # {}

\* C7: get, update and delete of an id no row has are answered 404 and
\* leave the table as it was.
C7_AbsentIdIsNotFound ==
    (last.op \in {"get", "update", "delete"}
        /\ (last.op = "update" => StudentCreate(last.body))
        /\ last.id \notin Ids(last.before))
    => (last.status = 404 /\ table = last.before)

\* C7 witness: an update of an absent id was answered while the table held
\* a row.
C7_Witness ==
    /\ last.op = "update" /\ StudentCreate(last.body)
    /\ last.id \notin Ids(last.before)
    /\ last.before # {}

\* C8: a write request that is answered with a failure has committed
\* nothing, and one that is answered with success has committed.
C8_FailureCommitsNothing ==
    ended.op \in Writes => (ended.committed <=> ended.status = 200)

\* C9: no row of the table has an empty name, address or email.
C9_FieldsNonEmpty ==
    \A r \in table : r.name # <<>> /\ r.address # <<>> /\ r.email # <<>>

\* C10: an update or delete is answered with success only if the row it
\* names was in the table when its write was committed.
C10_SuccessOnlyIfRowPresent ==
    (ended.op \in {"update", "delete"} /\ ended.status = 200) => ended.present

====
